---- MODULE Spec2Model ----
(***************************************************************************)
(* SVN Auto Commit (today-only commits): the change-detection loop, the    *)
(* today ledger and the commit orchestrator of src/svn_today_commit.py.    *)
(*                                                                         *)
(* Time is an integer clock (now).  A directory path is a sequence of      *)
(* segments, a file path a record [dir, name].  A snapshot is a function   *)
(* from file paths to fingerprints <<mtime, size>>, like the Python dict.  *)
(* The ledger changed_today maps a working-copy root to the insertion-     *)
(* ordered sequence of its entries (a Python dict keeps insertion order).  *)
(***************************************************************************)
EXTENDS Integers, Sequences, FiniteSets, TLC

\* ------------------------------------------------------------------ bounds
\* Clock units in one calendar day (timedelta(days=1)).
DayLen == 5
\* Last instant of the modelled clock.
MaxTime == 6
\* The debounce window (debounce_spin value copied to debounce_ms), in clock units.
DebounceUnits == 1
\* Number of filesystem events (writes, deletions) the environment performs.
MaxFsEvents == 2
\* Number of times the user presses Stop, Browse or Update Now.
MaxUiEvents == 1

\* ------------------------------------------------------- program constants
AddChunk == 50
SvnCommitChunk == 80
TpCommitChunk == 100

\* --------------------------------------------------------------- the tree
Top == <<"C:">>
WcA == <<"C:", "A">>
WcB == <<"C:", "A", "ext", "B">>
TmpDir == <<"C:", "tmp">>
\* Directories that hold a .svn metadata directory.
SvnDirs == {WcA, WcB}
\* Folders the user can pick in the folder dialog.
Folders == {Top, TmpDir}
\* "" : no folder chosen.
NoFolder == <<>>

File(d, n) == [dir |-> d, name |-> n]
fa == File(WcA, 1)
fb == File(WcB, 1)
\* Files the environment creates, rewrites and deletes one at a time.
SmallFiles == {fa, fb}

Range(s) == {s[i] : i \in DOMAIN s}
EmptyMap == [k \in {} |-> 0]

\* ---------------------------------------------------------------- helpers
\* start_of_today(): midnight of the day that holds instant t.
StartOfDay(t) == (t \div DayLen) * DayLen

\* Name a is a string prefix of name b, for the directory names of the tree.
NamePrefix(a, b) == a = b \/ (a = "A" /\ b = "Ab")

\* A slip: containment tested by string prefix (path.startswith(parent)).
DirUnderPrefix(d, parent) ==
    /\ parent # <<>>
    /\ Len(parent) <= Len(d)
    /\ SubSeq(d, 1, Len(parent) - 1) = SubSeq(parent, 1, Len(parent) - 1)
    /\ NamePrefix(parent[Len(parent)], d[Len(parent)])

\* A directory d lies under (or is) directory parent: commonpath == parent.
DirUnder(d, parent) ==
    /\ Len(parent) <= Len(d)
    /\ SubSeq(d, 1, Len(parent)) = parent

\* is_under(path, parent) for a file path.
is_under(p, parent) == DirUnder(p.dir, parent)

\* is_ignored(path): names ending in a transient suffix; none of the modelled
\* files has one.
is_ignored(p) == FALSE

\* snapshot_tree(root): the fingerprints of the files under root.
snapshot_tree(root, files) ==
    [p \in {q \in DOMAIN files : is_under(q, root) /\ ~is_ignored(q)} |-> files[p]]

\* A slip: a new key is also tested for a changed fingerprint.
diff_states_overlap(old, new) ==
    [added |-> DOMAIN new \ DOMAIN old,
     removed |-> DOMAIN old \ DOMAIN new,
     modified |-> {k \in DOMAIN new : k \notin DOMAIN old \/ old[k] # new[k]}]

\* diff_states(old, new)
diff_states(old, new) ==
    [added |-> DOMAIN new \ DOMAIN old,
     removed |-> DOMAIN old \ DOMAIN new,
     modified |-> {k \in DOMAIN new \cap DOMAIN old : old[k] # new[k]}]

\* len(p) of a directory path written with separators.
RECURSIVE PathLen(_)
PathLen(d) == IF d = <<>> THEN 0 ELSE Len(Head(d)) + 1 + PathLen(Tail(d))

\* sorted(set(wc_roots), key=(len(p), p.lower()))
RECURSIVE SortRoots(_)
SortRoots(S) ==
    IF S = {} THEN <<>>
    ELSE LET m == CHOOSE d \in S : \A e \in S : PathLen(d) <= PathLen(e)
         IN <<m>> \o SortRoots(S \ {m})

find_working_copy_roots(root) ==
    IF root = NoFolder THEN <<>>
    ELSE SortRoots({d \in SvnDirs : DirUnder(d, root)})

\* A slip: the first root that holds the path is kept.
RECURSIVE NearestFirst(_, _, _, _)
NearestFirst(p, roots, best, best_len) ==
    IF roots = <<>> THEN best
    ELSE LET wc == Head(roots)
         IN IF is_under(p, wc) /\ best = <<>>
            THEN NearestFirst(p, Tail(roots), wc, PathLen(wc))
            ELSE NearestFirst(p, Tail(roots), best, best_len)

\* nearest_wc_root: the longest root that holds the path; <<>> stands for None.
RECURSIVE NearestFrom(_, _, _, _)
NearestFrom(p, roots, best, best_len) ==
    IF roots = <<>> THEN best
    ELSE LET wc == Head(roots)
         IN IF is_under(p, wc) /\ PathLen(wc) > best_len
            THEN NearestFrom(p, Tail(roots), wc, PathLen(wc))
            ELSE NearestFrom(p, Tail(roots), best, best_len)

nearest_wc_root(p, roots) == NearestFrom(p, roots, <<>>, -1)

\* All orders in which a Python set can be iterated.
Orderings(S) ==
    {s \in [1..Cardinality(S) -> S] : \A i, j \in 1..Cardinality(S) : s[i] = s[j] => i = j}

\* ----------------------------------------------------------------- ledger
\* An entry: path, change type 'A' 'M' 'D', and (history) the modification or
\* detection time it was recorded with and the instant of the recording tick.
Entry(p, t, s, at) == [path |-> p, kind |-> t, stamp |-> s, at |-> at]

Keys(items) == {items[i].path : i \in DOMAIN items}

\* d[p] = t on an insertion-ordered dict.
DictSet(items, e) ==
    IF e.path \in Keys(items)
    THEN [i \in DOMAIN items |-> IF items[i].path = e.path THEN e ELSE items[i]]
    ELSE Append(items, e)

\* d.pop(p, None)
DictPop(items, p) == SelectSeq(items, LAMBDA e : e.path # p)

\* {wc: {} for wc in self.wc_roots}
EmptyLedger(roots) == [wc \in Range(roots) |-> <<>>]

\* self.changed_today.setdefault(wc, {})[fp] = t
LedgerPut(led, wc, e) ==
    IF wc \in DOMAIN led
    THEN [led EXCEPT ![wc] = DictSet(led[wc], e)]
    ELSE [w \in DOMAIN led \cup {wc} |-> IF w = wc THEN <<e>> ELSE led[w]]

\* self.changed_today.get(wc, {})
LedgerGet(led, wc) == IF wc \in DOMAIN led THEN led[wc] ELSE <<>>

\* A slip: a file modified at today_zero exactly is left out.
RECURSIVE RecordExistingStrict(_, _, _, _, _, _, _)
RecordExistingStrict(led, order, t, roots, tz, t_now, files) ==
    IF order = <<>> THEN led
    ELSE LET fp == Head(order)
             wc == nearest_wc_root(fp, roots)
             next ==
                 IF is_ignored(fp) \/ wc = <<>> \/ fp \notin DOMAIN files THEN led
                 ELSE IF files[fp][1] > tz
                      THEN LedgerPut(led, wc, Entry(fp, t, files[fp][1], t_now))
                      ELSE led
         IN RecordExistingStrict(next, Tail(order), t, roots, tz, t_now, files)

\* One loop of record_today_changes over added or modified paths.
RECURSIVE RecordExisting(_, _, _, _, _, _, _)
RecordExisting(led, order, t, roots, tz, t_now, files) ==
    IF order = <<>> THEN led
    ELSE LET fp == Head(order)
             wc == nearest_wc_root(fp, roots)
             next ==
                 IF is_ignored(fp) \/ wc = <<>> \/ fp \notin DOMAIN files THEN led
                 ELSE IF files[fp][1] >= tz
                      THEN LedgerPut(led, wc, Entry(fp, t, files[fp][1], t_now))
                      ELSE led
         IN RecordExisting(next, Tail(order), t, roots, tz, t_now, files)

\* The loop of record_today_changes over removed paths.
RECURSIVE RecordRemoved(_, _, _, _, _)
RecordRemoved(led, order, roots, tz, t_now) ==
    IF order = <<>> THEN led
    ELSE LET fp == Head(order)
             wc == nearest_wc_root(fp, roots)
             next ==
                 IF is_ignored(fp) \/ wc = <<>> THEN led
                 ELSE IF t_now >= tz THEN LedgerPut(led, wc, Entry(fp, "D", t_now, t_now))
                      ELSE led
         IN RecordRemoved(next, Tail(order), roots, tz, t_now)

record_today_changes(led, ordA, ordR, ordM, roots, tz, t_now, files) ==
    LET l1 == RecordExisting(led, ordA, "A", roots, tz, t_now, files)
        l2 == RecordExisting(l1, ordM, "M", roots, tz, t_now, files)
    IN RecordRemoved(l2, ordR, roots, tz, t_now)

\* ------------------------------------------------------ external commands
\* What subprocess.run does: the process ends with return code rc, or the
\* call raises exception exc.
Exit(rc) == [exc |-> "", rc |-> rc]
Raised(exc) == [exc |-> exc, rc |-> 0]

\* A slip: only a missing executable is caught; any other exception leaves
\* run_cmd (code -1 stands for the propagated exception).
run_cmd_narrow(o) ==
    IF o.exc = "" THEN o.rc
    ELSE IF o.exc = "FileNotFoundError" THEN 127
    ELSE 0 - 1

\* run_cmd: the result code for outcome o of subprocess.run.
run_cmd(o) ==
    IF o.exc = "" THEN o.rc
    ELSE IF o.exc = "FileNotFoundError" THEN 127
    ELSE 128

\* The exit code of the k-th external invocation of a handler run.
ExitCode(codes, k) == IF k \in DOMAIN codes THEN codes[k] ELSE 0

\* One external invocation as the activity log shows it (log_proc); a commit
\* invocation also keeps the ledger as it is once its exit code is handled.
Call(verb, tool, wc, paths, msg, code, led) ==
    [verb |-> verb, tool |-> tool, wc |-> wc, paths |-> paths, msg |-> msg,
     code |-> code, ledger |-> led]

Min(a, b) == IF a <= b THEN a ELSE b

\* A slip: the last, partial chunk is dropped.
chunk_floor(seq, n) ==
    [j \in 1..(Len(seq) \div n) |-> SubSeq(seq, (j - 1) * n + 1, j * n)]

\* chunk(seq, n): [seq[i:i+n] for i in range(0, len(seq), n)]
chunk(seq, n) ==
    [j \in 1..((Len(seq) + n - 1) \div n) |->
        SubSeq(seq, (j - 1) * n + 1, Min(j * n, Len(seq)))]

PathsOf(items) == [i \in DOMAIN items |-> items[i].path]

\* compose_commit_message(): prefix, human_time(), user, application.
compose_commit_message(t_now) == <<"Auto-commit (Today)", t_now, "user">>

\* ------------------------------------------------------------- validation
\* The part of the window's state a handler reads and writes, with what the
\* handler has done so far: calls (external invocations), warned (modal
\* warnings), clears (assignments of an empty ledger), staged (the lists each
\* commit routine built).
Frame(svn, tp, cli, upd, root, roots, led, prev, tz) ==
    [svn_path |-> svn, tp_path |-> tp, use_svn_cli |-> cli, auto_update |-> upd,
     root_folder |-> root, wc_roots |-> roots, changed_today |-> led,
     prev_state |-> prev, today_zero |-> tz,
     calls |-> <<>>, warned |-> 0, clears |-> 0, staged |-> <<>>, ok |-> TRUE]

\* refresh_wc_roots()
refresh_wc_roots(st) ==
    LET roots == find_working_copy_roots(st.root_folder)
    IN [st EXCEPT !.wc_roots = roots,
                  !.changed_today = EmptyLedger(roots),
                  !.clears = @ + 1]

\* A slip: the day is re-stamped but the ledger is kept.
reset_today_keep(st, t_now) == [st EXCEPT !.today_zero = StartOfDay(t_now)]

\* A slip: the tracked day is moved on by one day.
reset_today_step(st, t_now) ==
    [st EXCEPT !.today_zero = st.today_zero + DayLen,
               !.changed_today = EmptyLedger(st.wc_roots),
               !.clears = @ + 1]

\* reset_today()
reset_today(st, t_now) ==
    [st EXCEPT !.today_zero = StartOfDay(t_now),
               !.changed_today = EmptyLedger(st.wc_roots),
               !.clears = @ + 1]

\* warn(): a modal warning box.
warn(st) == [st EXCEPT !.warned = @ + 1]

\* A slip: the working copies are refreshed on every validation.
validate_paths_refresh(st, inst) ==
    LET svn1 == IF st.use_svn_cli /\ st.svn_path = "" THEN inst.svn ELSE st.svn_path
        tp1 == IF st.tp_path = "" THEN inst.tp ELSE st.tp_path
        ok == svn1 # "" \/ tp1 # ""
        s1 == [st EXCEPT !.svn_path = svn1, !.tp_path = tp1, !.ok = ok]
        s2 == IF ok THEN s1 ELSE warn(s1)
    IN refresh_wc_roots(s2)

\* validate_paths(); inst gives what find_default_svn() and
\* find_default_tortoiseproc() find on this machine.
validate_paths(st, inst) ==
    LET svn1 == IF st.use_svn_cli /\ st.svn_path = "" THEN inst.svn ELSE st.svn_path
        tp1 == IF st.tp_path = "" THEN inst.tp ELSE st.tp_path
        ok == svn1 # "" \/ tp1 # ""
        s1 == [st EXCEPT !.svn_path = svn1, !.tp_path = tp1, !.ok = ok]
        s2 == IF ok THEN s1 ELSE warn(s1)
    IN IF s2.wc_roots = <<>> THEN refresh_wc_roots(s2) ELSE s2

\* ----------------------------------------------------------------- update
\* A slip: the loop stops at the first update that fails.
RECURSIVE UpdateEachStop(_, _, _)
UpdateEachStop(st, roots, codes) ==
    IF roots = <<>> THEN st
    ELSE LET code == ExitCode(codes, Len(st.calls) + 1)
             c == Call("update", "svn", Head(roots), <<>>, <<>>, code, EmptyMap)
         IN IF code # 0 THEN [st EXCEPT !.calls = Append(@, c)]
            ELSE UpdateEachStop([st EXCEPT !.calls = Append(@, c)], Tail(roots), codes)

\* The svn.exe branch of do_update: one update per working copy root.
RECURSIVE UpdateEach(_, _, _)
UpdateEach(st, roots, codes) ==
    IF roots = <<>> THEN st
    ELSE LET code == ExitCode(codes, Len(st.calls) + 1)
             c == Call("update", "svn", Head(roots), <<>>, <<>>, code, EmptyMap)
         IN UpdateEach([st EXCEPT !.calls = Append(@, c)], Tail(roots), codes)

\* do_update(); files is the tree as the final snapshot_tree sees it.
do_update(st, inst, codes, files) ==
    LET v == validate_paths(st, inst)
    IN IF ~v.ok THEN v
       ELSE IF v.wc_roots = <<>> THEN warn(v)
       ELSE IF v.use_svn_cli /\ v.svn_path # ""
            THEN [UpdateEach(v, v.wc_roots, codes)
                    EXCEPT !.prev_state = snapshot_tree(v.root_folder, files)]
       ELSE IF v.tp_path # ""
            THEN LET code == ExitCode(codes, Len(v.calls) + 1)
                     c == Call("update", "tp", <<>>, v.wc_roots, <<>>, code, EmptyMap)
                 IN [v EXCEPT !.calls = Append(@, c),
                              !.prev_state = snapshot_tree(v.root_folder, files)]
       ELSE warn(v)

\* ----------------------------------------------------------------- commit
\* A slip: the modification time is not checked again.
KeptStale(e, wc, tz, files) ==
    /\ is_under(e.path, wc)
    /\ e.kind \in {"A", "M", "D"}

\* The re-validation loop of perform_commit_today_only for one working copy.
\* An entry the loop puts into clean: under wc, and a deletion, or a file
\* that is missing, or a file modified since today_zero.
Kept(e, wc, tz, files) ==
    /\ is_under(e.path, wc)
    /\ \/ e.kind = "D"
       \/ /\ e.kind \in {"A", "M"}
          /\ (e.path \notin DOMAIN files \/ files[e.path][1] >= tz)

\* A slip: a missing file keeps its recorded type.
ReclassifyKeep(e, files) == e

\* The type an entry is put into clean with: 'D' when the file is missing.
Reclassify(e, files) ==
    IF e.kind \in {"A", "M"} /\ e.path \notin DOMAIN files
    THEN [e EXCEPT !.kind = "D"] ELSE e

Clean(items, wc, tz, files) ==
    LET kept == SelectSeq(items, LAMBDA e : Kept(e, wc, tz, files))
    IN [i \in DOMAIN kept |-> Reclassify(kept[i], files)]

\* per_wc_items: the working copies with validated entries, in wc_roots order.
RECURSIVE PerWcItems(_, _, _, _)
PerWcItems(roots, led, tz, files) ==
    IF roots = <<>> THEN <<>>
    ELSE LET wc == Head(roots)
             clean == Clean(LedgerGet(led, wc), wc, tz, files)
             rest == PerWcItems(Tail(roots), led, tz, files)
         IN IF clean # <<>> THEN <<[wc |-> wc, items |-> clean]>> \o rest ELSE rest

\* A staging loop: one svn add / svn rm invocation per chunk.
RECURSIVE StageChunks(_, _, _, _, _)
StageChunks(st, chunks, verb, wc, codes) ==
    IF chunks = <<>> THEN st
    ELSE LET code == ExitCode(codes, Len(st.calls) + 1)
             c == Call(verb, "svn", wc, Head(chunks), <<>>, code, EmptyMap)
         IN StageChunks([st EXCEPT !.calls = Append(@, c)], Tail(chunks), verb, wc, codes)

\* for p in chunk: self.changed_today.get(wc_root, {}).pop(p, None)
PopAll(led, wc, paths) ==
    IF wc \in DOMAIN led
    THEN [led EXCEPT ![wc] = SelectSeq(@, LAMBDA e : e.path \notin Range(paths))]
    ELSE led

\* A slip: the batch is popped whatever the exit code.
AfterCommitAnyCode(led, wc, paths, code) == PopAll(led, wc, paths)

\* What one commit invocation's exit code does to the ledger.
AfterCommit(led, wc, paths, code) ==
    IF code = 0 THEN PopAll(led, wc, paths) ELSE led

\* A slip: the loop ends at the first failed chunk.
RECURSIVE CommitChunksStop(_, _, _, _, _, _)
CommitChunksStop(st, chunks, tool, wc, msg, codes) ==
    IF chunks = <<>> THEN st
    ELSE LET code == ExitCode(codes, Len(st.calls) + 1)
             led == AfterCommit(st.changed_today, wc, Head(chunks), code)
             c == Call("commit", tool, wc, Head(chunks), msg, code, led)
             s1 == [st EXCEPT !.calls = Append(@, c), !.changed_today = led]
         IN IF code = 0
            THEN CommitChunksStop(s1, Tail(chunks), tool, wc, msg, codes)
            ELSE s1

\* The commit loop: one commit invocation per chunk.
RECURSIVE CommitChunks(_, _, _, _, _, _)
CommitChunks(st, chunks, tool, wc, msg, codes) ==
    IF chunks = <<>> THEN st
    ELSE LET code == ExitCode(codes, Len(st.calls) + 1)
             led == AfterCommit(st.changed_today, wc, Head(chunks), code)
             c == Call("commit", tool, wc, Head(chunks), msg, code, led)
         IN CommitChunks([st EXCEPT !.calls = Append(@, c), !.changed_today = led],
                         Tail(chunks), tool, wc, msg, codes)

\* A slip: deletions are not staged.
StagedNoDeletes(tool, wc, items, files, staging) ==
    [tool |-> tool, wc |-> wc, staging |-> staging,
     add_list |-> PathsOf(SelectSeq(items, LAMBDA e : e.kind = "A" /\ e.path \in DOMAIN files)),
     del_list |-> <<>>,
     targets |-> PathsOf(items)]

\* The lists a commit routine builds for one working copy.
Staged(tool, wc, items, files, staging) ==
    [tool |-> tool, wc |-> wc, staging |-> staging,
     add_list |-> PathsOf(SelectSeq(items, LAMBDA e : e.kind = "A" /\ e.path \in DOMAIN files)),
     del_list |-> PathsOf(SelectSeq(items, LAMBDA e : e.kind = "D")),
     targets |-> PathsOf(items)]

\* commit_with_svn_today_only
commit_with_svn_today_only(st, wc, items, msg, codes, files) ==
    LET lists == Staged("svn", wc, items, files, TRUE)
        s0 == [st EXCEPT !.staged = Append(@, lists)]
        s1 == StageChunks(s0, chunk(lists.add_list, AddChunk), "add", wc, codes)
        s2 == StageChunks(s1, chunk(lists.del_list, AddChunk), "rm", wc, codes)
    IN IF lists.targets = <<>> THEN s2
       ELSE CommitChunks(s2, chunk(lists.targets, SvnCommitChunk), "svn", wc, msg, codes)

\* commit_with_tortoiseproc_today_only
commit_with_tortoiseproc_today_only(st, wc, items, msg, codes, files) ==
    LET lists == Staged("tp", wc, items, files, st.svn_path # "")
        s0 == [st EXCEPT !.staged = Append(@, lists)]
        s1 == IF lists.staging
              THEN StageChunks(s0, chunk(lists.add_list, AddChunk), "add", wc, codes)
              ELSE s0
        s2 == IF lists.staging
              THEN StageChunks(s1, chunk(lists.del_list, AddChunk), "rm", wc, codes)
              ELSE s1
    IN IF lists.targets = <<>> THEN s2
       ELSE CommitChunks(s2, chunk(lists.targets, TpCommitChunk), "tp", wc, msg, codes)

\* for wc, items in per_wc_items.items(): commit_with_...(wc, items, message)
RECURSIVE CommitEach(_, _, _, _, _, _)
CommitEach(st, per_wc, tool, msg, codes, files) ==
    IF per_wc = <<>> THEN st
    ELSE LET h == Head(per_wc)
             s1 == IF tool = "svn"
                   THEN commit_with_svn_today_only(st, h.wc, h.items, msg, codes, files)
                   ELSE commit_with_tortoiseproc_today_only(st, h.wc, h.items, msg, codes, files)
         IN CommitEach(s1, Tail(per_wc), tool, msg, codes, files)

\* A slip: an attempt that finds no backend gives up its entries.
perform_commit_drop(st, inst, codes, files, t_now) ==
    LET v == validate_paths(st, inst)
    IN IF ~v.ok THEN [v EXCEPT !.changed_today = EmptyLedger(v.wc_roots)]
       ELSE IF v.wc_roots = <<>> THEN warn(v)
       ELSE LET per_wc == PerWcItems(v.wc_roots, v.changed_today, v.today_zero, files)
            IN IF per_wc = <<>> THEN v
               ELSE LET u == IF v.auto_update THEN do_update(v, inst, codes, files) ELSE v
                        msg == compose_commit_message(t_now)
                    IN IF u.use_svn_cli /\ u.svn_path # ""
                       THEN CommitEach(u, per_wc, "svn", msg, codes, files)
                       ELSE IF u.tp_path # ""
                       THEN CommitEach(u, per_wc, "tp", msg, codes, files)
                       ELSE warn(u)

\* perform_commit_today_only()
perform_commit_today_only(st, inst, codes, files, t_now) ==
    LET v == validate_paths(st, inst)
    IN IF ~v.ok THEN v
       ELSE IF v.wc_roots = <<>> THEN warn(v)
       ELSE LET per_wc == PerWcItems(v.wc_roots, v.changed_today, v.today_zero, files)
            IN IF per_wc = <<>> THEN v
               ELSE LET u == IF v.auto_update THEN do_update(v, inst, codes, files) ELSE v
                        msg == compose_commit_message(t_now)
                    IN IF u.use_svn_cli /\ u.svn_path # ""
                       THEN CommitEach(u, per_wc, "svn", msg, codes, files)
                       ELSE IF u.tp_path # ""
                       THEN CommitEach(u, per_wc, "tp", msg, codes, files)
                       ELSE warn(u)

\* ------------------------------------------------------------------ state
VARIABLES
    now,             \* the local clock (datetime.now(), time.time())
    fs,              \* the files on disk: path -> <<mtime, size>>
    fs_events,       \* filesystem events performed so far
    ui_events,       \* button presses performed so far
    installed,       \* what find_default_svn / find_default_tortoiseproc find
    monitoring,      \* self.monitoring (the timer runs)
    root_folder,     \* self.root_folder
    prev_state,      \* self.prev_state
    wc_roots,        \* self.wc_roots
    today_zero,      \* self.today_zero
    changed_today,   \* self.changed_today
    last_change_ts,  \* self.last_change_ts
    pending_commit,  \* self.pending_commit
    svn_path,        \* svn_path_edit
    tp_path,         \* tp_path_edit
    use_svn_cli,     \* use_svn_cli check box
    auto_update,     \* auto_update_before_commit check box
    ev,              \* history: what the most recent step did
    detect_ts,       \* history: instant of the latest tick that detected a change
    rearmed,         \* history: a change was detected while a commit was pending
    retry,           \* history: ledger paths whose latest commit batch failed
    fail_ts,         \* history: instant of the orchestrator run that failed them
    blocked,         \* history: paths in the ledger when an attempt found no backend
    created,         \* history: paths recorded as added and not committed or removed since
    modal,           \* handlers blocked in a modal warning box, innermost last
    fault            \* how an external invocation fails on this machine

vars == <<now, fs, fs_events, ui_events, installed, monitoring, root_folder, prev_state,
          wc_roots, today_zero, changed_today, last_change_ts, pending_commit,
          svn_path, tp_path, use_svn_cli, auto_update, ev, detect_ts, rearmed, retry,
          fail_ts, blocked, created, modal, fault>>

\* The ways an invocation fails: a non-zero exit status, a missing executable,
\* a timeout.
Faults == {"exit", "FileNotFoundError", "TimeoutExpired"}

\* The outcomes subprocess.run can have on this machine; a missing executable
\* never runs.
Outcomes ==
    IF fault = "FileNotFoundError" THEN {Raised("FileNotFoundError")}
    ELSE IF fault = "TimeoutExpired" THEN {Exit(0), Raised("TimeoutExpired")}
    ELSE {Exit(0), Exit(1)}

\* The result codes run_cmd can return on this machine.
ExitCodes == {run_cmd(o) : o \in Outcomes}

\* self.debounce_ms
debounce_ms == DebounceUnits

\* A modification time older than every modelled instant.
OldStamp == 0 - 1

\* (st.st_mtime, st.st_size) of a file of one byte written at instant m.
Fingerprint(m) == <<m, 1>>

\* What a step of the environment, or a handler that did nothing, leaves in ev.
NullEv(op) ==
    [op |-> op, entry |-> changed_today, tz |-> today_zero, retry |-> retry,
     fail_ts |-> fail_ts, blocked |-> blocked, created |-> created, modal |-> modal,
     sets |-> diff_states(EmptyMap, EmptyMap),
     ok |-> TRUE, rolled |-> FALSE, diff |-> {}, detected |-> FALSE,
     rearmed |-> FALSE, orch |-> FALSE, start |-> EmptyMap, per_wc |-> <<>>,
     calls |-> <<>>, staged |-> <<>>, warned |-> 0, clears |-> 0]

\* The window's state as a handler finds it.
Cur == Frame(svn_path, tp_path, use_svn_cli, auto_update, root_folder, wc_roots,
             changed_today, prev_state, today_zero)

\* All paths that have an entry in the ledger.
LedgerKeys(led) == UNION {Keys(led[wc]) : wc \in DOMAIN led}

\* The paths of the commit invocations among calls with an exit code in codes.
Submitted(calls, codes) ==
    UNION {Range(calls[k].paths) :
             k \in {j \in DOMAIN calls : calls[j].verb = "commit" /\ calls[j].code \in codes}}

\* The paths that ledger led holds with type t.
KindKeys(led, t) ==
    UNION {{led[wc][i].path : i \in {j \in DOMAIN led[wc] : led[wc][j].kind = t}} :
              wc \in DOMAIN led}

\* History of failed batches after a handler: paths submitted again leave it,
\* paths of failed batches enter it, paths no longer in the ledger leave it.
Track(st, t_now) ==
    LET r == ((retry \ Submitted(st.calls, ExitCodes)) \cup Submitted(st.calls, ExitCodes \ {0}))
                 \cap LedgerKeys(st.changed_today)
    IN /\ retry' = r
       /\ fail_ts' = IF Submitted(st.calls, ExitCodes \ {0}) # {} THEN t_now
                      ELSE IF r = {} THEN 0 - 1 ELSE fail_ts
       /\ blocked' = IF st.warned > 0 /\ ~((st.use_svn_cli /\ st.svn_path # "") \/ st.tp_path # "")
                      THEN LedgerKeys(st.changed_today)
                      ELSE blocked \cap LedgerKeys(st.changed_today)
       /\ created' = ((created \cup KindKeys(st.changed_today, "A"))
                          \ KindKeys(st.changed_today, "D")) \ Submitted(st.calls, {0})

\* QMessageBox.warning runs a nested event loop: a handler that warns stays
\* blocked in it until the user closes its boxes, while timer events are still
\* delivered.  A handler's effects are applied when it starts; the statements
\* that follow a warning change nothing that a nested tick reads.
Block(op, orch, st) ==
    modal' = IF st.warned > 0
             THEN Append(modal, [op |-> op, orch |-> orch, dialogs |-> st.warned])
             ELSE modal

\* Write a handler's frame back to the window.
Store(st) ==
    /\ svn_path' = st.svn_path
    /\ tp_path' = st.tp_path
    /\ root_folder' = st.root_folder
    /\ wc_roots' = st.wc_roots
    /\ changed_today' = st.changed_today
    /\ prev_state' = st.prev_state
    /\ today_zero' = st.today_zero

\* Settings as persisted or typed before the window opens, with the tools
\* this machine has.
Machine(cli, upd, svn, tp, isvn, itp) ==
    [use_svn_cli |-> cli, auto_update |-> upd, svn_path |-> svn, tp_path |-> tp,
     installed |-> [svn |-> isvn, tp |-> itp]]

AllMachines ==
    {Machine(TRUE, TRUE, "svn", "tp", "svn", "tp"),
     Machine(TRUE, FALSE, "svn", "", "svn", ""),
     Machine(FALSE, TRUE, "svn", "tp", "svn", "tp"),
     Machine(FALSE, FALSE, "", "tp", "", "tp"),
     Machine(FALSE, TRUE, "svn", "", "svn", ""),
     Machine(TRUE, FALSE, "", "", "", "")}

Machines ==
    {Machine(TRUE, TRUE, "svn", "tp", "svn", "tp"),
     Machine(FALSE, FALSE, "", "tp", "", "tp"),
     Machine(TRUE, FALSE, "", "", "", "")}

InitFiles == {(fa :> Fingerprint(OldStamp))}

\* MainWindow.__init__
InitWith(m, files, folder) ==
    /\ now = 0
    /\ fs = files
    /\ fs_events = 0
    /\ ui_events = 0
    /\ installed = m.installed
    /\ monitoring = FALSE
    /\ root_folder = folder
    /\ prev_state = IF folder # NoFolder THEN snapshot_tree(folder, files) ELSE EmptyMap
    /\ wc_roots = find_working_copy_roots(folder)
    /\ today_zero = StartOfDay(0)
    /\ changed_today = EmptyLedger(find_working_copy_roots(folder))
    /\ last_change_ts = 0
    /\ pending_commit = FALSE
    /\ svn_path = m.svn_path
    /\ tp_path = m.tp_path
    /\ use_svn_cli = m.use_svn_cli
    /\ auto_update = m.auto_update
    /\ rearmed = FALSE
    /\ retry = {}
    /\ fail_ts = 0 - 1
    /\ blocked = {}
    /\ created = {}
    /\ modal = <<>>
    /\ fault = "exit"
    /\ ev = NullEv("init")
    /\ detect_ts = 0 - 1

Init ==
    \E m \in Machines, files \in InitFiles, folder \in {NoFolder, Top} :
        InitWith(m, files, folder)

\* ------------------------------------------------------------ environment
\* Time passes while the timer is stopped.
Advance ==
    /\ ~monitoring
    /\ now < MaxTime
    /\ now' = now + 1
    /\ ev' = NullEv("time")
    /\ UNCHANGED <<fs, fs_events, ui_events, installed, monitoring, root_folder, prev_state,
                   wc_roots, today_zero, changed_today, last_change_ts,
                   pending_commit, svn_path, tp_path, use_svn_cli, auto_update,
                   detect_ts, rearmed, retry, fail_ts, blocked, created, modal, fault>>

\* A file is created or rewritten; its mtime is now, or an old one when an old
\* file is copied or restored with its timestamp.
WriteFile(p, m) ==
    /\ fs_events < MaxFsEvents
    /\ fs' = [q \in DOMAIN fs \cup {p} |-> IF q = p THEN Fingerprint(m) ELSE fs[q]]
    /\ fs' # fs
    /\ fs_events' = fs_events + 1
    /\ ev' = NullEv("fs")
    /\ UNCHANGED <<now, ui_events, installed, monitoring, root_folder, prev_state,
                   wc_roots, today_zero, changed_today, last_change_ts,
                   pending_commit, svn_path, tp_path, use_svn_cli, auto_update,
                   detect_ts, rearmed, retry, fail_ts, blocked, created, modal, fault>>

\* A file is deleted.
DeleteFile(p) ==
    /\ fs_events < MaxFsEvents
    /\ p \in DOMAIN fs
    /\ fs' = [q \in DOMAIN fs \ {p} |-> fs[q]]
    /\ fs_events' = fs_events + 1
    /\ ev' = NullEv("fs")
    /\ UNCHANGED <<now, ui_events, installed, monitoring, root_folder, prev_state,
                   wc_roots, today_zero, changed_today, last_change_ts,
                   pending_commit, svn_path, tp_path, use_svn_cli, auto_update,
                   detect_ts, rearmed, retry, fail_ts, blocked, created, modal, fault>>

\* --------------------------------------------------------------- handlers
\* The number of external invocations perform_commit_today_only issues: exit
\* codes do not decide which invocations are made.
CallsOf(st, files, t_now) ==
    Len(perform_commit_today_only(st, installed, <<>>, files, t_now).calls)

\* A slip: the tick at midnight exactly does not count as the next day.
DayRolledLate(t_now, tz) == t_now > tz + DayLen

\* A slip: the day added to today_zero is forgotten.
DayRolledEarly(t_now, tz) == t_now >= tz

\* Line 369: the tracked day has rolled over.
DayRolled(t_now, tz) == t_now >= tz + DayLen

\* Line 375: the scan found a change.
Changed(d) == d.added # {} \/ d.removed # {} \/ d.modified # {}

\* A slip: only the first change of the run stamps last_change_ts.
StampChangeOnce(changed, t_now, ts) == IF changed /\ ts = 0 THEN t_now ELSE ts

\* Line 380: a detected change re-stamps last_change_ts.
StampChange(changed, t_now, ts) == IF changed THEN t_now ELSE ts

\* A slip: the window must be exceeded, not reached.
DebounceExceeded(pending, t_now, ts) == pending /\ (t_now - ts) > debounce_ms

\* Line 382: a commit is pending and the debounce window has elapsed.
DebounceExpired(pending, t_now, ts) == pending /\ (t_now - ts) >= debounce_ms

\* A slip: the flag is left set when the orchestrator is invoked.
KeepPending(pending, fire) == pending

\* Line 383: the flag after the debounce test.
ClearPending(pending, fire) == pending /\ ~fire

\* on_tick
on_tick(t_now) ==
    LET rolled == DayRolled(t_now, today_zero)
        s0 == IF rolled THEN reset_today(Cur, t_now) ELSE Cur
    IN IF s0.root_folder = NoFolder
       THEN /\ Store(s0)
            /\ Track(s0, t_now)
            /\ Block("tick", FALSE, s0)
            /\ UNCHANGED <<last_change_ts, pending_commit, detect_ts, rearmed>>
            /\ ev' = [NullEv("tick") EXCEPT !.rolled = rolled, !.clears = s0.clears]
       ELSE LET new_state == snapshot_tree(s0.root_folder, fs)
                d == diff_states(s0.prev_state, new_state)
                changed == Changed(d)
                ts1 == StampChange(changed, t_now, last_change_ts)
                pend1 == IF changed THEN TRUE ELSE pending_commit
                fire == DebounceExpired(pend1, t_now, ts1)
            IN \E ordA \in Orderings(d.added), ordR \in Orderings(d.removed),
                  ordM \in Orderings(d.modified) :
               \E s1 \in {IF changed
                          THEN [s0 EXCEPT
                                  !.prev_state = new_state,
                                  !.changed_today =
                                      record_today_changes(s0.changed_today, ordA, ordR,
                                          ordM, s0.wc_roots, s0.today_zero, t_now, fs)]
                          ELSE s0} :
               \E codes \in [1..(IF fire THEN CallsOf(s1, fs, t_now) ELSE 0) -> ExitCodes] :
               \E s2 \in {IF fire
                          THEN perform_commit_today_only(s1, installed, codes, fs, t_now)
                          ELSE s1} :
                   /\ Store(s2)
                   /\ Track(s2, t_now)
                   /\ Block("tick", fire, s2)
                   /\ last_change_ts' = ts1
                   /\ pending_commit' = ClearPending(pend1, fire)
                   /\ detect_ts' = IF changed THEN t_now ELSE detect_ts
                   /\ rearmed' = IF fire THEN FALSE
                                 ELSE rearmed \/ (changed /\ pending_commit)
                   /\ ev' = [op |-> "tick", entry |-> changed_today, tz |-> today_zero,
                             retry |-> retry, fail_ts |-> fail_ts, modal |-> modal,
                             blocked |-> blocked, created |-> created,
                             sets |-> d, ok |-> s2.ok,
                             rolled |-> rolled,
                             diff |-> d.added \cup d.removed \cup d.modified,
                             detected |-> changed,
                             rearmed |-> rearmed \/ (changed /\ pending_commit),
                             orch |-> fire,
                             start |-> IF fire THEN s1.changed_today ELSE EmptyMap,
                             per_wc |-> IF fire
                                        THEN PerWcItems(s1.wc_roots, s1.changed_today,
                                                        s1.today_zero, fs)
                                        ELSE <<>>,
                             calls |-> s2.calls, staged |-> s2.staged,
                             warned |-> s2.warned, clears |-> s2.clears]

\* The timer fires: one clock unit (the scan interval) after the previous tick.
Tick ==
    /\ monitoring
    /\ now < MaxTime
    /\ now' = now + 1
    /\ on_tick(now + 1)
    /\ UNCHANGED <<fs, fs_events, ui_events, installed, monitoring, use_svn_cli, auto_update,
                   fault>>

\* start_monitor
StartMonitor ==
    LET v == validate_paths(Cur, installed)
        bad == v.root_folder = NoFolder
        s1 == IF v.ok /\ bad THEN warn(v) ELSE v
    IN /\ ~monitoring
       /\ modal = <<>>
       /\ Store(s1)
       /\ Track(s1, now)
       /\ Block("start", FALSE, s1)
       /\ monitoring' = (v.ok /\ ~bad)
       /\ ev' = [NullEv("start") EXCEPT !.warned = s1.warned, !.clears = s1.clears,
                                        !.ok = s1.ok]
       /\ UNCHANGED <<now, fs, fs_events, ui_events, installed, last_change_ts, pending_commit,
                      use_svn_cli, auto_update, detect_ts, rearmed, fault>>

\* A slip: stopping also drops the pending commit.
StopMonitorReset ==
    /\ monitoring
    /\ modal = <<>>
    /\ monitoring' = FALSE
    /\ pending_commit' = FALSE
    /\ ui_events < MaxUiEvents
    /\ ui_events' = ui_events + 1
    /\ ev' = NullEv("stop")
    /\ UNCHANGED <<now, fs, fs_events, installed, root_folder, prev_state, wc_roots,
                   today_zero, changed_today, last_change_ts, svn_path,
                   tp_path, use_svn_cli, auto_update, detect_ts, rearmed, retry, fail_ts,
                   blocked, created, modal, fault>>

\* stop_monitor
StopMonitor ==
    /\ monitoring
    /\ modal = <<>>
    /\ monitoring' = FALSE
    /\ ui_events < MaxUiEvents
    /\ ui_events' = ui_events + 1
    /\ ev' = NullEv("stop")
    /\ UNCHANGED <<now, fs, fs_events, installed, root_folder, prev_state, wc_roots,
                   today_zero, changed_today, last_change_ts, pending_commit, svn_path,
                   tp_path, use_svn_cli, auto_update, detect_ts, rearmed, retry, fail_ts,
                   blocked, created,
                   modal, fault>>

\* choose_folder: the dialog returns folder d.
ChooseFolder(d) ==
    LET s1 == [Cur EXCEPT !.root_folder = d, !.prev_state = snapshot_tree(d, fs)]
        s2 == reset_today(refresh_wc_roots(s1), now)
    IN /\ modal = <<>>
       /\ Store(s2)
       /\ Track(s2, now)
       /\ Block("choose_folder", FALSE, s2)
       /\ ui_events < MaxUiEvents
       /\ ui_events' = ui_events + 1
       /\ ev' = [NullEv("choose_folder") EXCEPT !.clears = s2.clears]
       /\ UNCHANGED <<now, fs, fs_events, installed, monitoring, last_change_ts,
                      pending_commit, use_svn_cli, auto_update, detect_ts, rearmed, fault>>

\* "Update Now": do_update from the button or the tray menu.
UpdateNow ==
    \E codes \in [1..Len(do_update(Cur, installed, <<>>, fs).calls) -> ExitCodes] :
        LET s1 == do_update(Cur, installed, codes, fs)
        IN /\ modal = <<>>
           /\ Store(s1)
           /\ Track(s1, now)
           /\ Block("do_update", FALSE, s1)
           /\ ui_events < MaxUiEvents
           /\ ui_events' = ui_events + 1
           /\ ev' = [NullEv("do_update") EXCEPT !.calls = s1.calls, !.warned = s1.warned,
                                                !.clears = s1.clears, !.ok = s1.ok]
           /\ UNCHANGED <<now, fs, fs_events, installed, monitoring, last_change_ts,
                          pending_commit, use_svn_cli, auto_update, detect_ts, rearmed,
                          fault>>

\* The user closes the warning box on top; the handler blocked in it goes on
\* to its next box or returns.
CloseWarn ==
    /\ modal # <<>>
    /\ modal' = IF modal[Len(modal)].dialogs > 1
                 THEN [modal EXCEPT ![Len(modal)].dialogs = @ - 1]
                 ELSE SubSeq(modal, 1, Len(modal) - 1)
    /\ ev' = NullEv("close_warn")
    /\ UNCHANGED <<now, fs, fs_events, ui_events, installed, monitoring, root_folder,
                   prev_state, wc_roots, today_zero, changed_today, last_change_ts,
                   pending_commit, svn_path, tp_path, use_svn_cli, auto_update,
                   detect_ts, rearmed, retry, fail_ts, blocked, created, fault>>

Next ==
    \/ Advance
    \/ \E p \in SmallFiles, m \in {now, OldStamp} : WriteFile(p, m)
    \/ \E p \in SmallFiles : DeleteFile(p)
    \/ Tick
    \/ StartMonitor
    \/ StopMonitor
    \/ \E d \in Folders : ChooseFolder(d)
    \/ UpdateNow
    \/ CloseWarn

Spec == Init /\ [][Next]_vars

\* ------------------------------------------------- a large working copy
\* Numbers of files changed today in working copy A: around the batch sizes.
BulkSizes ==
    {1, SvnCommitChunk, SvnCommitChunk + SvnCommitChunk \div 2, 2 * SvnCommitChunk + 1}

BulkFiles(n) == {File(WcA, i) : i \in 1..n}

\* The tree: n files in A written at instant 0, or none of them when they were
\* deleted again; and one file in B.
BulkTree(n, present) ==
    [p \in (IF present THEN BulkFiles(n) ELSE {}) \cup {fb} |-> Fingerprint(0)]

\* The window after a tick at instant 0 has recorded n files of A as kind
\* (and fb as 'M') and, when the files are gone, after Update Now has taken a
\* new baseline: monitoring, commit pending.
InitBatch ==
    \E m \in AllMachines, n \in BulkSizes, kind \in {"A", "M"}, present \in BOOLEAN :
        /\ now = 0
        /\ fs = BulkTree(n, present)
        /\ fs_events = MaxFsEvents
        /\ ui_events = MaxUiEvents
        /\ installed = m.installed
        /\ monitoring = TRUE
        /\ root_folder = Top
        /\ prev_state = snapshot_tree(Top, BulkTree(n, present))
        /\ wc_roots = find_working_copy_roots(Top)
        /\ today_zero = StartOfDay(0)
        /\ changed_today =
              [wc \in Range(find_working_copy_roots(Top)) |->
                  IF wc = WcA THEN [i \in 1..n |-> Entry(File(WcA, i), kind, 0, 0)]
                  ELSE <<Entry(fb, "M", 0, 0)>>]
        /\ last_change_ts = 0
        /\ pending_commit = TRUE
        /\ svn_path = m.svn_path
        /\ tp_path = m.tp_path
        /\ use_svn_cli = m.use_svn_cli
        /\ auto_update = m.auto_update
        /\ rearmed = FALSE
        /\ retry = {}
        /\ fail_ts = 0 - 1
        /\ blocked = {}
        /\ created = IF kind = "A" THEN BulkFiles(n) ELSE {}
        /\ modal = <<>>
        /\ fault = "exit"
        /\ ev = NullEv("init")
        /\ detect_ts = 0

NextBatch == Tick \/ CloseWarn

SpecBatch == InitBatch /\ [][NextBatch]_vars

\* ------------------------------------------ working copies and timestamps
\* A directory next to working copy A whose name starts with A's name, and a
\* plain directory between A and B.
Sib == <<"C:", "Ab">>
Ext == <<"C:", "A", "ext">>

\* Directories a changed file lies in.
LocDirs == {Top, WcA, Ext, WcB, Sib}

\* The working copies found at the last refresh.
RootSets == SUBSET {WcA, WcB, Sib}

\* A file of the tree in a snapshot: absent, or present with a modification
\* time before, at or after today_zero.
Absent == 0 - 2
Stamps == {Absent, OldStamp, 0, 1}

\* The snapshot in which file f has stamp m and file g stamp n.
TwoFiles(f, m, g, n) ==
    [q \in (IF m = Absent THEN {} ELSE {f}) \cup (IF n = Absent THEN {} ELSE {g})
        |-> IF q = f THEN Fingerprint(m) ELSE Fingerprint(n)]

\* The ledger after the tick at instant 1 recorded the files of snapshot old
\* that were written today.
LedgerOf(roots, old) ==
    [wc \in Range(roots) |->
        LET mine == {q \in DOMAIN old : nearest_wc_root(q, roots) = wc /\ old[q][1] >= 0}
        IN IF mine = {} THEN <<>>
           ELSE [i \in 1..Cardinality(mine) |->
                   LET q == CHOOSE o \in Orderings(mine) : TRUE
                   IN Entry(q[i], "A", old[q[i]][1], 1)]]

\* The window one scan interval after the tick at instant 1: the baseline is
\* snapshot old, the tree has changed to new since.
InitLocate ==
    \E S \in RootSets, d \in LocDirs, m1 \in Stamps \ {1}, m2 \in Stamps,
       n1 \in {Absent, 0}, n2 \in {Absent, 0, 1} :
        LET roots == SortRoots(S)
            old == TwoFiles(File(d, 2), m1, fa, n1)
            new == TwoFiles(File(d, 2), m2, fa, n2)
            led == LedgerOf(roots, old)
            any == \E wc \in DOMAIN led : led[wc] # <<>>
        IN /\ now = 1
           /\ fs = new
           /\ fs_events = MaxFsEvents
           /\ ui_events = 0
           /\ installed = [svn |-> "svn", tp |-> ""]
           /\ monitoring = TRUE
           /\ root_folder = Top
           /\ prev_state = old
           /\ wc_roots = roots
           /\ today_zero = StartOfDay(1)
           /\ changed_today = led
           /\ last_change_ts = IF any THEN 1 ELSE 0
           /\ pending_commit = any
           /\ svn_path = "svn"
           /\ tp_path = ""
           /\ use_svn_cli = TRUE
           /\ auto_update = FALSE
           /\ rearmed = FALSE
           /\ retry = {}
           /\ fail_ts = 0 - 1
           /\ blocked = {}
           /\ created = LedgerKeys(led)
           /\ modal = <<>>
           /\ fault = "exit"
           /\ ev = NullEv("init")
           /\ detect_ts = IF any THEN 1 ELSE 0 - 1

NextLocate == Tick \/ \E d \in Folders : ChooseFolder(d)

SpecLocate == InitLocate /\ [][NextLocate]_vars

\* --------------------------------------------- backends that come and go
\* What find_default_svn / find_default_tortoiseproc may find on a machine.
Installs == {[svn |-> "", tp |-> ""], [svn |-> "svn", tp |-> ""], [svn |-> "", tp |-> "tp"]}

\* A tool is installed or removed: the find_default_* functions see the
\* machine as i from now on.
Install(i) ==
    /\ installed # i
    /\ ui_events < MaxUiEvents
    /\ ui_events' = ui_events + 1
    /\ installed' = i
    /\ ev' = NullEv("install")
    /\ UNCHANGED <<now, fs, fs_events, monitoring, root_folder, prev_state, wc_roots,
                   today_zero, changed_today, last_change_ts, pending_commit, svn_path,
                   tp_path, use_svn_cli, auto_update, detect_ts, rearmed, retry, fail_ts,
                   blocked, created, modal, fault>>

\* The user types or clears the two path fields of the settings.
EditPaths(svn, tp) ==
    /\ modal = <<>>
    /\ <<svn, tp>> # <<svn_path, tp_path>>
    /\ ui_events < MaxUiEvents
    /\ ui_events' = ui_events + 1
    /\ svn_path' = svn
    /\ tp_path' = tp
    /\ ev' = NullEv("edit_paths")
    /\ UNCHANGED <<now, fs, fs_events, installed, monitoring, root_folder, prev_state,
                   wc_roots, today_zero, changed_today, last_change_ts, pending_commit,
                   use_svn_cli, auto_update, detect_ts, rearmed, retry, fail_ts,
                   blocked, created, modal, fault>>

\* The window one scan interval after the tick at instant 1 recorded fa as
\* modified at today_zero and fb as added: since then fa may have been put back
\* to a timestamp of yesterday and fb deleted; invocations fail in way f.
InitBackend ==
    \E m \in AllMachines, f \in Faults, ma \in {OldStamp, 0}, hasb \in BOOLEAN :
        /\ now = 1
        /\ fs = IF hasb THEN (fa :> Fingerprint(ma)) @@ (fb :> Fingerprint(1))
                ELSE (fa :> Fingerprint(ma))
        /\ fs_events = MaxFsEvents - 1
        /\ ui_events = 0
        /\ installed = m.installed
        /\ monitoring = TRUE
        /\ root_folder = Top
        /\ prev_state = (fa :> Fingerprint(0)) @@ (fb :> Fingerprint(1))
        /\ wc_roots = find_working_copy_roots(Top)
        /\ today_zero = StartOfDay(1)
        /\ changed_today = (WcA :> <<Entry(fa, "M", 0, 1)>>) @@ (WcB :> <<Entry(fb, "A", 1, 1)>>)
        /\ last_change_ts = 1
        /\ pending_commit = TRUE
        /\ svn_path = m.svn_path
        /\ tp_path = m.tp_path
        /\ use_svn_cli = m.use_svn_cli
        /\ auto_update = m.auto_update
        /\ rearmed = FALSE
        /\ retry = {}
        /\ fail_ts = 0 - 1
        /\ blocked = {}
        /\ created = {fb}
        /\ modal = <<>>
        /\ fault = f
        /\ ev = NullEv("init")
        /\ detect_ts = 1

NextBackend ==
    \/ Tick
    \/ CloseWarn
    \/ UpdateNow
    \/ \E i \in Installs : Install(i)
    \/ \E svn \in {"", "svn"}, tp \in {"", "tp"} : EditPaths(svn, tp)
    \/ \E p \in SmallFiles : WriteFile(p, now)

SpecBackend == InitBackend /\ [][NextBackend]_vars

\* ------------------------------------------------------ days that pass
\* The run covers HorizonDays days.
HorizonDays == 3
Horizon == HorizonDays * DayLen

\* The gaps between two timer events: one scan interval, or a day or more
\* than two days when the machine was suspended in between.
Gaps == {1, DayLen, 2 * DayLen + 1}

\* The timer fires g clock units after the previous event.
TickAfter(g) ==
    /\ monitoring
    /\ now + g <= Horizon
    /\ now' = now + g
    /\ on_tick(now + g)
    /\ UNCHANGED <<fs, fs_events, ui_events, installed, monitoring, use_svn_cli, auto_update,
                   fault>>

\* g clock units pass while the timer is stopped.
Idle(g) ==
    /\ ~monitoring
    /\ now + g <= Horizon
    /\ now' = now + g
    /\ ev' = NullEv("time")
    /\ UNCHANGED <<fs, fs_events, ui_events, installed, monitoring, root_folder, prev_state,
                   wc_roots, today_zero, changed_today, last_change_ts,
                   pending_commit, svn_path, tp_path, use_svn_cli, auto_update,
                   detect_ts, rearmed, retry, fail_ts, blocked, created, modal, fault>>

\* The window as constructed on a machine with svn.exe.
InitDays ==
    \E folder \in {NoFolder, Top} :
        InitWith(Machine(TRUE, FALSE, "svn", "", "svn", ""), fa :> Fingerprint(OldStamp), folder)

NextDays ==
    \/ \E g \in Gaps : TickAfter(g)
    \/ \E g \in Gaps : Idle(g)
    \/ WriteFile(fb, now)
    \/ StartMonitor
    \/ \E d \in Folders : ChooseFolder(d)
    \/ CloseWarn

SpecDays == InitDays /\ [][NextDays]_vars

\* ================================================================ properties
Max(S) == CHOOSE x \in S : \A y \in S : y <= x

\* The ledger holds at least one entry.
HasEntries(led) == \E wc \in DOMAIN led : led[wc] # <<>>

\* (working copy, path) pairs of the ledger.
LedgerPairs(led) == {<<wc, p>> : wc \in DOMAIN led, p \in LedgerKeys(led)} \cap
                    UNION {{<<wc, p>> : p \in Keys(led[wc])} : wc \in DOMAIN led}

\* The commit branch of perform_commit_today_only has an executable.
BackendConfigured == (use_svn_cli /\ svn_path # "") \/ tp_path # ""

\* The last step was a tick that invoked the orchestrator.
OrchRan == ev.op = "tick" /\ ev.orch

\* Positions of the commit invocations of the last step.
CommitIdx == {k \in DOMAIN ev.calls : ev.calls[k].verb = "commit"}

\* The commit invocations of the last step in working copy wc, in order.
CommitsIn(wc) == SelectSeq(ev.calls, LAMBDA c : c.verb = "commit" /\ c.wc = wc)

\* The ledger as commit invocation k found it.
LedgerBefore(k) ==
    IF {j \in CommitIdx : j < k} = {} THEN ev.start
    ELSE ev.calls[Max({j \in CommitIdx : j < k})].ledger

\* ------------------------------------------------------------------- C1
\* C1: a tick invokes the orchestrator only if pending_commit was set and at
\* least debounce_ms have passed since the most recent tick that detected a
\* change (so never in a tick that detects one: each detection restarts the
\* window).
C1_Debounce ==
    [][(ev'.op = "tick" /\ ev'.orch) =>
          /\ pending_commit
          /\ detect_ts' >= 0
          /\ (now' - detect_ts') >= debounce_ms
          /\ ~ev'.detected]_vars

\* The orchestrator runs after a second change restarted the window.
C1_Witness == OrchRan /\ ev.rearmed /\ ev.calls # <<>>

\* ------------------------------------------------------------------- C2
\* C2: for every commit invocation of an orchestrator run: exit code 0 removes
\* exactly the batch's paths from that working copy's ledger and changes no
\* other entry of any working copy; another exit code leaves the ledger as it
\* was.  120 Added paths in batches of 80, the first succeeding and the second
\* failing, leave exactly the 40 paths of the second batch.
C2_BatchBookkeeping ==
    OrchRan =>
      /\ \A k \in CommitIdx :
           LET c == ev.calls[k]
               before == LedgerBefore(k)
               after == c.ledger
           IN /\ DOMAIN after = DOMAIN before
              /\ c.wc \in DOMAIN before
              /\ IF c.code = 0
                 THEN /\ Range(c.paths) \subseteq Keys(before[c.wc])
                      /\ \A w \in DOMAIN before :
                           IF w = c.wc
                           THEN /\ Keys(after[w]) = Keys(before[w]) \ Range(c.paths)
                                /\ after[w] = SelectSeq(before[w],
                                                 LAMBDA e : e.path \in Keys(after[w]))
                           ELSE after[w] = before[w]
                 ELSE after = before
      /\ CommitIdx # {} => changed_today = ev.calls[Max(CommitIdx)].ledger
      /\ CommitIdx = {} => changed_today = ev.start
      /\ (/\ WcA \in DOMAIN ev.start
          /\ Len(ev.start[WcA]) = 120
          /\ Len(CommitsIn(WcA)) = 2
          /\ Len(CommitsIn(WcA)[1].paths) = 80
          /\ CommitsIn(WcA)[1].code = 0
          /\ CommitsIn(WcA)[2].code # 0)
         => /\ Len(changed_today[WcA]) = 40
            /\ changed_today[WcA] = SubSeq(ev.start[WcA], 81, 120)

\* 120 paths, batches of 80 and 40, the first committed and the second failed.
C2_Witness ==
    /\ OrchRan
    /\ WcA \in DOMAIN ev.start
    /\ Len(ev.start[WcA]) = 120
    /\ Len(CommitsIn(WcA)) = 2
    /\ CommitsIn(WcA)[1].code = 0
    /\ CommitsIn(WcA)[2].code # 0
    /\ Len(changed_today[WcA]) = 40

\* ------------------------------------------------------------------- C3
\* Every retained path of a failed batch that still validates.
RetryValid(led, r) ==
    \A wc \in DOMAIN led : \A i \in DOMAIN led[wc] :
        led[wc][i].path \in r => Kept(led[wc][i], wc, today_zero, fs)

\* C3 as claimed: with monitoring on, no rollover and a backend configured, a
\* tick that runs debounce_ms or more after a failed batch, whose paths are
\* still in the ledger, submits them again, whether or not a change was
\* detected since.
C3_RetryWithoutChange ==
    (/\ ev.op = "tick"
     /\ monitoring
     /\ BackendConfigured
     /\ ev.tz = today_zero
     /\ ev.retry # {}
     /\ ev.retry \subseteq LedgerKeys(ev.entry)
     /\ RetryValid(ev.entry, ev.retry)
     /\ now >= ev.fail_ts + debounce_ms)
    => /\ ev.orch
       /\ ev.retry \subseteq Submitted(ev.calls, ExitCodes)

\* C3 (amended): the paths of a failed batch are submitted again by the next
\* orchestrator run with a backend configured, if they still validate; that
\* run takes place only after a tick later than the failure has detected a
\* change, and until then no commit is pending.
C3_RetryAfterNextChange ==
    /\ (OrchRan /\ BackendConfigured) =>
          \A wc \in DOMAIN ev.start : \A i \in DOMAIN ev.start[wc] :
              (/\ ev.start[wc][i].path \in ev.retry
               /\ Kept(ev.start[wc][i], wc, today_zero, fs))
              => \E k \in CommitIdx :
                    /\ ev.calls[k].wc = wc
                    /\ ev.start[wc][i].path \in Range(ev.calls[k].paths)
    /\ (OrchRan /\ ev.retry # {}) => detect_ts > ev.fail_ts
    /\ (retry # {} /\ detect_ts <= fail_ts) => ~pending_commit

\* A path of a failed batch is submitted again after a further change.
C3_Witness ==
    /\ OrchRan
    /\ ev.retry # {}
    /\ ev.retry \subseteq Submitted(ev.calls, ExitCodes)
    /\ detect_ts > ev.fail_ts

\* ------------------------------------------------------------------- C4
\* C4: an entry leaves the ledger only through a commit invocation of its
\* working copy that holds its path and returns 0, through the day-rollover
\* reset of a tick, or through the choice of a watched folder.
C4_NoChangeLost ==
    [][\A x \in LedgerPairs(changed_today) \ LedgerPairs(changed_today') :
          \/ \E k \in DOMAIN ev'.calls :
                /\ ev'.calls[k].verb = "commit"
                /\ ev'.calls[k].code = 0
                /\ ev'.calls[k].wc = x[1]
                /\ x[2] \in Range(ev'.calls[k].paths)
          \/ ev'.op = "tick" /\ ev'.rolled
          \/ ev'.op = "choose_folder"]_vars

\* An entry has outlived a failed batch, a stop and a start of the monitor.
C4_Witness == ev.op = "start" /\ monitoring /\ retry # {}

\* ------------------------------------------------------------------- C5
\* C5: when the orchestrator reads the ledger every entry was recorded in the
\* current tracked day, with a modification or detection time >= today_zero,
\* and only paths of such entries are passed to staging and commit
\* invocations.
C5_TodayOnly ==
    OrchRan =>
      /\ today_zero = StartOfDay(now)
      /\ \A wc \in DOMAIN ev.start : \A i \in DOMAIN ev.start[wc] :
            /\ ev.start[wc][i].stamp >= today_zero
            /\ ev.start[wc][i].at >= today_zero
      /\ \A k \in DOMAIN ev.calls :
            ev.calls[k].verb \in {"add", "rm", "commit"} =>
               /\ ev.calls[k].wc \in DOMAIN ev.start
               /\ Range(ev.calls[k].paths) \subseteq Keys(ev.start[ev.calls[k].wc])

\* The orchestrator runs in the tick that found yesterday's entries.
C5_Witness == OrchRan /\ ev.rolled /\ HasEntries(ev.entry)

\* ------------------------------------------------------------------- C6
\* C6: every tick tests the rollover; a tick at or after today_zero + one day
\* re-stamps today_zero to the start of the current day and empties the ledger
\* before it records or commits anything (what the ledger and the
\* orchestrator then hold was recorded by this tick); any other tick leaves
\* today_zero alone.
C6_Rollover ==
    [][ev'.op = "tick" =>
          IF now' >= today_zero + DayLen
          THEN /\ ev'.rolled
               /\ today_zero' = StartOfDay(now')
               /\ \A wc \in DOMAIN changed_today' : \A i \in DOMAIN changed_today'[wc] :
                     changed_today'[wc][i].at = now'
               /\ ev'.orch =>
                     /\ \A wc \in DOMAIN ev'.start : \A i \in DOMAIN ev'.start[wc] :
                           ev'.start[wc][i].at = now'
                     /\ \A k \in DOMAIN ev'.calls :
                           ev'.calls[k].verb \in {"add", "rm", "commit"} =>
                              Range(ev'.calls[k].paths)
                                 \subseteq LedgerKeys(ev'.start)
          ELSE ~ev'.rolled /\ today_zero' = today_zero]_vars

\* A tick after midnight empties a ledger with entries and records a change.
C6_Witness ==
    /\ ev.op = "tick"
    /\ ev.rolled
    /\ HasEntries(ev.entry)
    /\ ev.detected
    /\ HasEntries(changed_today)

\* ------------------------------------------------------------------- C7
\* C7 as claimed: only the first tick after midnight clears the ledger in
\* full; no other operation does.
C7_OnlyRolloverClears ==
    (ev.clears > 0 /\ HasEntries(ev.entry)) => (ev.op = "tick" /\ ev.rolled)

\* C7 (amended): a tick clears the ledger in full only when the clock has
\* reached today_zero + one day, which moves today_zero to a later day, so at
\* most once per calendar day; the only other operation that discards entries
\* in full is the choice of a watched folder; the refresh made by
\* validate_paths finds no entry.
C7_ClearsInFull ==
    /\ ev.op = "tick" =>
          /\ ev.rolled <=> now >= ev.tz + DayLen
          /\ ev.rolled => (today_zero = StartOfDay(now) /\ today_zero > ev.tz)
          /\ (~ev.rolled /\ HasEntries(ev.entry)) => ev.clears = 0
    /\ (ev.clears > 0 /\ HasEntries(ev.entry)) =>
          \/ ev.op = "tick" /\ ev.rolled
          \/ ev.op = "choose_folder"

\* The choice of a folder discards the entries of the day.
C7_Witness == ev.op = "choose_folder" /\ ev.clears > 0 /\ HasEntries(ev.entry)

\* ------------------------------------------------------------------- C8
\* Entries of working copy wc recorded as Added or Modified whose file is
\* missing when the orchestrator runs.
Vanished(wc) ==
    {ev.start[wc][i].path : i \in {j \in DOMAIN ev.start[wc] :
        /\ ev.start[wc][j].kind \in {"A", "M"}
        /\ is_under(ev.start[wc][j].path, wc)
        /\ ev.start[wc][j].path \notin DOMAIN fs}}

BatchSize(tool) == IF tool = "svn" THEN SvnCommitChunk ELSE TpCommitChunk

\* C9: for every working copy of a cycle the commit targets are all its
\* validated paths; its commit invocations are ceil(n/size) consecutive
\* batches of at most size paths, all but the last full, whose concatenation
\* in order is the target list; all commit invocations of the cycle carry the
\* same message.
C9_Batches ==
    (OrchRan /\ BackendConfigured) =>
      /\ Len(ev.staged) = Len(ev.per_wc)
      /\ \A i \in DOMAIN ev.staged :
           LET s == ev.staged[i]
               size == BatchSize(s.tool)
               n == Len(s.targets)
               cc == CommitsIn(s.wc)
           IN /\ s.wc = ev.per_wc[i].wc
              /\ s.targets = [m \in DOMAIN ev.per_wc[i].items |-> ev.per_wc[i].items[m].path]
              /\ n > 0
              /\ Len(cc) = (n + size - 1) \div size
              /\ \A j \in DOMAIN cc :
                    /\ cc[j].tool = s.tool
                    /\ Len(cc[j].paths) >= 1
                    /\ Len(cc[j].paths) <= size
                    /\ j < Len(cc) => Len(cc[j].paths) = size
                    /\ \A m \in DOMAIN cc[j].paths :
                          /\ (j - 1) * size + m <= n
                          /\ cc[j].paths[m] = s.targets[(j - 1) * size + m]
              /\ Len(cc) > 0 => (Len(cc) - 1) * size + Len(cc[Len(cc)].paths) = n
      /\ \A k1, k2 \in CommitIdx : ev.calls[k1].msg = ev.calls[k2].msg
      /\ \A k \in CommitIdx : \E i \in DOMAIN ev.staged : ev.staged[i].wc = ev.calls[k].wc

\* A working copy is committed in three batches, the last one partial.
C9_Witness ==
    /\ OrchRan
    /\ \E wc \in DOMAIN ev.start :
          /\ Len(CommitsIn(wc)) = 3
          /\ Len(CommitsIn(wc)[1].paths) = SvnCommitChunk
          /\ Len(CommitsIn(wc)[2].paths) = SvnCommitChunk
          /\ Len(CommitsIn(wc)[3].paths) = 1

\* ------------------------------------------------------------------ C10
\* Position of working copy wc among the working copies of the cycle.
WcPos(wc) == CHOOSE i \in DOMAIN ev.per_wc : ev.per_wc[i].wc = wc

\* Position of path p among the validated paths of working copy wc.
PathPos(wc, p) ==
    CHOOSE m \in DOMAIN ev.per_wc[WcPos(wc)].items : ev.per_wc[WcPos(wc)].items[m].path = p

\* C10: whatever the exit codes of the staging and commit invocations, an
\* orchestrator run passes every validated path of every working copy to a
\* commit invocation of that working copy, and issues the commit invocations
\* in the order of the working copies and of the target list.
C10_AllBatchesAttempted ==
    (OrchRan /\ BackendConfigured) =>
      /\ \A i \in DOMAIN ev.per_wc : \A m \in DOMAIN ev.per_wc[i].items :
            \E k \in CommitIdx :
               /\ ev.calls[k].wc = ev.per_wc[i].wc
               /\ ev.per_wc[i].items[m].path \in Range(ev.calls[k].paths)
      /\ \A k1, k2 \in CommitIdx :
            k1 < k2 =>
               LET c1 == ev.calls[k1]
                   c2 == ev.calls[k2]
               IN \/ WcPos(c1.wc) < WcPos(c2.wc)
                  \/ /\ c1.wc = c2.wc
                     /\ PathPos(c1.wc, c1.paths[Len(c1.paths)]) < PathPos(c2.wc, c2.paths[1])

\* After a failed staging invocation and a failed first batch the second batch
\* and the next working copy are still committed.
C10_Witness ==
    /\ OrchRan
    /\ \E j \in DOMAIN ev.calls :
          ev.calls[j].verb \in {"add", "rm"} /\ ev.calls[j].code # 0
    /\ \E k1, k2, k3 \in CommitIdx :
          /\ k1 < k2
          /\ k2 < k3
          /\ ev.calls[k1].code # 0
          /\ ev.calls[k1].wc = ev.calls[k2].wc
          /\ ev.calls[k3].wc # ev.calls[k1].wc

\* ------------------------------------------------------------------ C11
\* Directory d has root r as a prefix of its path segments.
SegUnder(d, r) == Len(r) <= Len(d) /\ \A i \in 1..Len(r) : d[i] = r[i]

\* The roots that contain path p.
Containing(p, roots) == {r \in Range(roots) : SegUnder(p.dir, r)}

\* The files of the tree, present or gone.
KnownFiles == DOMAIN fs \cup DOMAIN prev_state \cup ev.diff

\* C11: nearest_wc_root gives the longest root that contains the path, and no
\* root when none contains it (with roots A and A/ext/B a file under B belongs
\* to B); an entry recorded by a tick lies in the ledger of that root, and a
\* path that no root contains has no ledger entry.
C11_NearestRoot ==
    /\ \A p \in KnownFiles :
          LET n == nearest_wc_root(p, wc_roots)
              C == Containing(p, wc_roots)
          IN IF C = {} THEN n = <<>>
             ELSE n \in C /\ \A r \in C : Len(r) <= Len(n)
    /\ \A p \in KnownFiles :
          (SegUnder(p.dir, WcB) /\ {WcA, WcB} \subseteq Range(wc_roots))
             => nearest_wc_root(p, wc_roots) = WcB
    /\ \A wc \in DOMAIN changed_today : \A i \in DOMAIN changed_today[wc] :
          LET p == changed_today[wc][i].path
          IN /\ Containing(p, wc_roots) # {}
             /\ wc \in Containing(p, wc_roots)
             /\ \A r \in Containing(p, wc_roots) : Len(r) <= Len(wc)

\* A tick records a file under B in B's ledger while A is a root too, and
\* leaves out a file that no root contains.
C11_Witness ==
    /\ ev.op = "tick"
    /\ {WcA, WcB} \subseteq Range(wc_roots)
    /\ \E i \in DOMAIN changed_today[WcB] :
          /\ changed_today[WcB][i].at = now
          /\ SegUnder(changed_today[WcB][i].path.dir, WcB)
    /\ changed_today[WcA] = <<>>

\* ------------------------------------------------------------------ C12
\* C12: every path of changed_today[wc] lies under wc segment by segment (a
\* file of directory Ab is never stored under root A), and every key wc of
\* changed_today is one of the current wc_roots.
C12_LedgerUnderRoot ==
    \A wc \in DOMAIN changed_today :
       /\ wc \in Range(wc_roots)
       /\ \A i \in DOMAIN changed_today[wc] :
             SegUnder(changed_today[wc][i].path.dir, wc)

\* A tick finds a file written today in directory Ab, next to root A, and
\* records it under no root.
C12_Witness ==
    /\ ev.op = "tick"
    /\ WcA \in Range(wc_roots)
    /\ Sib \notin Range(wc_roots)
    /\ \E p \in ev.sets.added \cup ev.sets.modified :
          /\ p.dir = Sib
          /\ fs[p][1] >= today_zero
          /\ p \notin LedgerKeys(changed_today)

\* ------------------------------------------------------------------ C13
\* The entries of path p in ledger led.
EntriesOf(led, p) ==
    UNION {{<<wc, led[wc][i]>> : i \in {j \in DOMAIN led[wc] : led[wc][j].path = p}} :
              wc \in DOMAIN led}

\* The entries of p that the tick found, none after a rollover.
EntriesBefore(p) == IF ev.rolled THEN {} ELSE EntriesOf(ev.entry, p)

\* C13: a tick that detects changes sets the entry of an added or modified
\* path exactly when its modification time is >= today_zero (equal included)
\* and a root owns it, and otherwise leaves the path's entry as it was; a
\* removed path that a root owns is recorded as 'D' with the detection time,
\* whatever its file's timestamp was.
C13_TodayCutoff ==
    (ev.op = "tick" /\ ev.detected /\ ~ev.orch) =>
       /\ \A p \in ev.sets.added \cup ev.sets.modified :
             LET own == Containing(p, wc_roots)
                 kind == IF p \in ev.sets.added THEN "A" ELSE "M"
             IN IF own # {} /\ fs[p][1] >= today_zero
                THEN \E x \in EntriesOf(changed_today, p) :
                        /\ EntriesOf(changed_today, p) = {x}
                        /\ x[2].kind = kind
                        /\ x[2].stamp = fs[p][1]
                        /\ x[2].at = now
                ELSE EntriesOf(changed_today, p) = EntriesBefore(p)
       /\ \A p \in ev.sets.removed :
             IF Containing(p, wc_roots) # {}
             THEN \E x \in EntriesOf(changed_today, p) :
                     /\ EntriesOf(changed_today, p) = {x}
                     /\ x[2].kind = "D"
                     /\ x[2].stamp = now
                     /\ x[2].at = now
             ELSE EntriesOf(changed_today, p) = {}

\* One tick records a file modified at today_zero exactly and keeps the old
\* entry of a file rewritten with an earlier timestamp.
C13_Witness ==
    /\ ev.op = "tick"
    /\ ~ev.rolled
    /\ \E p \in ev.sets.added \cup ev.sets.modified :
          /\ fs[p][1] = today_zero
          /\ \E x \in EntriesOf(changed_today, p) : x[2].at = now
    /\ \E p \in ev.sets.modified :
          /\ fs[p][1] < today_zero
          /\ EntriesOf(changed_today, p) # {}
          /\ EntriesOf(changed_today, p) = EntriesOf(ev.entry, p)

\* ------------------------------------------------------------------ C14
\* C14: the three sets of diff_states(S1, S2) are pairwise disjoint; added are
\* the keys only in S2, removed the keys only in S1, modified the keys of both
\* with different fingerprints; their union is the set of keys whose presence
\* or fingerprint differs, so equal snapshots give three empty sets.
C14_Diff ==
    [][(ev'.op = "tick" /\ root_folder # NoFolder) =>
          LET S1 == prev_state
              S2 == snapshot_tree(root_folder, fs)
              d == ev'.sets
              differ == {k \in DOMAIN S1 \cup DOMAIN S2 :
                           \/ (k \in DOMAIN S1) # (k \in DOMAIN S2)
                           \/ (k \in DOMAIN S1 /\ k \in DOMAIN S2 /\ S1[k] # S2[k])}
          IN /\ d.added \cap d.removed = {}
             /\ d.added \cap d.modified = {}
             /\ d.removed \cap d.modified = {}
             /\ \A k \in d.added : k \in DOMAIN S2 /\ k \notin DOMAIN S1
             /\ \A k \in d.removed : k \in DOMAIN S1 /\ k \notin DOMAIN S2
             /\ \A k \in d.modified : k \in DOMAIN S1 /\ k \in DOMAIN S2 /\ S1[k] # S2[k]
             /\ d.added \cup d.removed \cup d.modified = differ
             /\ S1 = S2 => (d.added = {} /\ d.removed = {} /\ d.modified = {})]_vars

\* A scan finds one file added and another one modified.
C14_Witness ==
    /\ ev.op = "tick"
    /\ ev.sets.added # {}
    /\ ev.sets.modified # {}
    /\ ev.sets.removed = {}

\* ------------------------------------------------------------------ C15
\* The handlers blocked in a warning box that are orchestrator runs of a tick.
OpenOrchestrators(m) == {i \in DOMAIN m : m[i].op = "tick" /\ m[i].orch}

\* C15: at most one orchestrator run is active at any time: no tick begins
\* while the orchestrator of an earlier tick, a warning it raises included,
\* has not returned.
C15_OneOrchestrator ==
    /\ ev.op = "tick" => OpenOrchestrators(ev.modal) = {}
    /\ Cardinality(OpenOrchestrators(modal)) <= 1

\* ------------------------------------------------------------------ C16
\* The step was a commit attempt or an update attempt.
Attempt == OrchRan \/ ev.op = "do_update"

UpdateIdx == {k \in DOMAIN ev.calls : ev.calls[k].verb = "update"}
WorkIdx == {k \in DOMAIN ev.calls : ev.calls[k].verb # "update"}

\* C17: in an orchestrator run with auto-update on and at least one validated
\* entry, every working copy is updated (one invocation per root with svn.exe,
\* one invocation over all roots with TortoiseProc), all update invocations
\* come before the first staging or commit invocation, and every working copy
\* with validated entries gets its commit invocation whatever the exit codes
\* of the updates were.
C17_UpdateFirst ==
    (OrchRan /\ auto_update /\ ev.per_wc # <<>>) =>
       /\ \A u \in UpdateIdx, k \in WorkIdx : u < k
       /\ WorkIdx # {} => UpdateIdx # {}
       /\ BackendConfigured =>
             /\ \A i \in DOMAIN wc_roots :
                   \E u \in UpdateIdx :
                      \/ ev.calls[u].tool = "svn" /\ ev.calls[u].wc = wc_roots[i]
                      \/ ev.calls[u].tool = "tp" /\ ev.calls[u].paths = wc_roots
             /\ \A j \in DOMAIN ev.per_wc :
                   \E k \in CommitIdx : ev.calls[k].wc = ev.per_wc[j].wc

\* An update fails and the commit of the same run still goes through.
C17_Witness ==
    /\ OrchRan
    /\ auto_update
    /\ \E u \in UpdateIdx : ev.calls[u].code # 0
    /\ \E k \in CommitIdx : ev.calls[k].code = 0 /\ \A u \in UpdateIdx : u < k

\* ------------------------------------------------------------------ C18
\* The result codes the claim allows for the way invocations fail.
ClaimedCodes ==
    IF fault = "FileNotFoundError" THEN {127}
    ELSE IF fault = "TimeoutExpired" THEN {0, 128}
    ELSE {0, 1}

\* C18: every invocation ends with a result code and never with an exception
\* (a code below 0 stands for one): 127 when the executable is not found, 128
\* for any other exception such as a timeout, the exit status otherwise, so a
\* failure is a non-zero code; a handler that met a failure leaves the
\* monitoring flag as it was, set when the handler was a tick.
C18_FailuresAreCodes ==
    [][/\ \A k \in DOMAIN ev'.calls :
             /\ ev'.calls[k].code >= 0
             /\ ev'.calls[k].code \in ClaimedCodes
             /\ fault # "exit" => (ev'.calls[k].code = 0 \/ ev'.calls[k].code \in {127, 128})
       /\ (\E k \in DOMAIN ev'.calls : ev'.calls[k].code # 0) =>
             /\ monitoring' = monitoring
             /\ ev'.op = "tick" => monitoring']_vars

\* A tick runs after an earlier tick's commit invocation timed out.
C18_Witness ==
    /\ ev.op = "tick"
    /\ fault = "TimeoutExpired"
    /\ ev.retry # {}
    /\ ev.fail_ts >= 0
    /\ ev.fail_ts < now
    /\ monitoring

\* ------------------------------------------------------------------ C19
\* An added or modified entry whose file exists with a modification time
\* before today_zero.
Stale(e) ==
    /\ e.kind \in {"A", "M"}
    /\ e.path \in DOMAIN fs
    /\ fs[e.path][1] < today_zero

\* The paths handed to the staging and commit invocations of the step.
Handed == UNION {Range(ev.calls[k].paths) : k \in WorkIdx}

\* C19: an orchestrator run hands an added or modified entry, whose file
\* exists with a modification time before today_zero, to no staging and no
\* commit invocation; the drop raises no warning, and with a backend
\* configured every other entry of the ledger is still handed to a commit
\* invocation of its working copy.
C19_StaleDropped ==
    OrchRan =>
       \A wc \in DOMAIN ev.start : \A i \in DOMAIN ev.start[wc] :
          LET e == ev.start[wc][i]
          IN IF Stale(e)
             THEN /\ e.path \notin Handed
                  /\ BackendConfigured => ev.warned = 0
             ELSE (BackendConfigured /\ SegUnder(e.path.dir, wc)) =>
                     \E k \in CommitIdx :
                        /\ ev.calls[k].wc = wc
                        /\ e.path \in Range(ev.calls[k].paths)

\* An entry of a file put back to yesterday's timestamp is dropped while the
\* entry of another working copy is committed in the same run.
C19_Witness ==
    /\ OrchRan
    /\ \E wc \in DOMAIN ev.start : \E i \in DOMAIN ev.start[wc] :
          /\ Stale(ev.start[wc][i])
          /\ ev.start[wc][i].path \in LedgerKeys(changed_today)
    /\ \E k \in CommitIdx : ev.calls[k].code = 0 /\ ev.calls[k].paths # <<>>

\* ------------------------------------------------------------------ C20
\* The invocations of the step with verb v for working copy wc.
VerbIdx(v, wc) == {k \in DOMAIN ev.calls : ev.calls[k].verb = v /\ ev.calls[k].wc = wc}

\* Every validated path of kind t of working copy item set w is in an
\* invocation with verb v, the invocations with verb v hold at most AddChunk
\* paths and all come before the first commit invocation of the working copy.
StagedBy(w, t, v) ==
    /\ \A i \in DOMAIN w.items :
          w.items[i].kind = t =>
             \E k \in VerbIdx(v, w.wc) : w.items[i].path \in Range(ev.calls[k].paths)
    /\ \A k \in VerbIdx(v, w.wc) :
          /\ Len(ev.calls[k].paths) <= AddChunk
          /\ \A c \in VerbIdx("commit", w.wc) : k < c

\* C20 as claimed: whichever backend is selected, an orchestrator run stages
\* every validated added path by an add invocation and every validated
\* deleted path by a remove invocation of its working copy, in batches of at
\* most 50, before the working copy's first commit invocation.
C20_StagingAnyBackend ==
    (OrchRan /\ BackendConfigured) =>
       \A j \in DOMAIN ev.per_wc :
          StagedBy(ev.per_wc[j], "A", "add") /\ StagedBy(ev.per_wc[j], "D", "rm")

\* C20 (amended): the same when an svn.exe path is configured, with either
\* backend; with no svn.exe path (TortoiseProc alone) no add and no remove
\* invocation is issued and the added and deleted paths go to the commit
\* invocations only.
C20_Staging ==
    (OrchRan /\ BackendConfigured) =>
       \A j \in DOMAIN ev.per_wc :
          IF svn_path # ""
          THEN StagedBy(ev.per_wc[j], "A", "add") /\ StagedBy(ev.per_wc[j], "D", "rm")
          ELSE /\ VerbIdx("add", ev.per_wc[j].wc) = {}
               /\ VerbIdx("rm", ev.per_wc[j].wc) = {}
               /\ \A i \in DOMAIN ev.per_wc[j].items :
                     \E c \in VerbIdx("commit", ev.per_wc[j].wc) :
                        ev.per_wc[j].items[i].path \in Range(ev.calls[c].paths)

\* A TortoiseProc run with an svn.exe path stages more than one full batch of
\* added paths before its commit invocations.
C20_Witness ==
    /\ OrchRan
    /\ svn_path # ""
    /\ \E k \in VerbIdx("add", WcA) : Len(ev.calls[k].paths) = AddChunk
    /\ Cardinality(VerbIdx("add", WcA)) > 1
    /\ \E c \in VerbIdx("commit", WcA) : ev.calls[c].tool = "tp"

\* ------------------------------------------------------------------ C21
\* C21: a tick that finds a commit pending, detects no change itself and runs
\* debounce_ms or more after the last detected change invokes the orchestrator
\* and leaves pending_commit cleared; a pending commit therefore never
\* outlives the first such tick, and while the flag is set the last detected
\* change is less than debounce_ms before the latest tick.
C21_DebounceFires ==
    [][/\ (/\ ev'.op = "tick"
           /\ root_folder # NoFolder
           /\ pending_commit
           /\ ~ev'.detected
           /\ now' - last_change_ts >= debounce_ms)
          => (ev'.orch /\ ~pending_commit')
       /\ (ev'.op = "tick" /\ pending_commit')
          => (now' - last_change_ts' < debounce_ms /\ ~ev'.orch)]_vars

\* The orchestrator runs on the first tick after the window, with no change
\* detected since, and the flag is cleared.
C21_Witness ==
    /\ OrchRan
    /\ ~ev.detected
    /\ ~pending_commit
    /\ detect_ts >= 0
    /\ now - last_change_ts = debounce_ms

\* ------------------------------------------------------------------ C22
\* The ledger, the baseline and the debounce state.
LoopState == <<changed_today, prev_state, pending_commit, last_change_ts>>

\* C22: no tick runs while monitoring is off; while it is off, steps other
\* than the buttons (start, choose folder, update now) leave the ledger, the
\* baseline, pending_commit and last_change_ts as they are, and no step issues
\* a commit invocation; stop_monitor clears the monitoring flag and changes
\* none of the four.
C22_StoppedIsIdle ==
    [][/\ ev'.op = "tick" => monitoring
       /\ ~monitoring =>
             /\ \A k \in DOMAIN ev'.calls : ev'.calls[k].verb # "commit"
             /\ ~ev'.orch
             /\ ev'.op \notin {"start", "choose_folder", "do_update"}
                   => LoopState' = LoopState
       /\ ev'.op = "stop" => (~monitoring' /\ LoopState' = LoopState)]_vars

\* Monitoring was stopped with a commit pending: the window elapses, the
\* entries stay in the ledger and nothing is committed.
C22_Witness ==
    /\ ~monitoring
    /\ ev.op = "time"
    /\ pending_commit
    /\ HasEntries(changed_today)
    /\ now - last_change_ts > debounce_ms

\* ------------------------------------------------------------------ C23
\* C23: where staging is available (an svn.exe path is configured), a path
\* that was recorded as added, has not been committed or found removed since
\* and still exists is in an add invocation of the run before the first commit
\* invocation that holds it.
C23_AddedIsStaged ==
    (OrchRan /\ svn_path # "") =>
       \A k \in CommitIdx : \A p \in Range(ev.calls[k].paths) :
          (p \in ev.created /\ p \in DOMAIN fs) =>
             \E a \in DOMAIN ev.calls :
                /\ a < k
                /\ ev.calls[a].verb = "add"
                /\ p \in Range(ev.calls[a].paths)

\* ------------------------------------------------------------------ C24
\* The paths on which snapshots a and b differ.
Differing(a, b) ==
    {k \in DOMAIN a \cup DOMAIN b :
        \/ (k \in DOMAIN a) # (k \in DOMAIN b)
        \/ (k \in DOMAIN a /\ k \in DOMAIN b /\ a[k] # b[k])}

\* C24: while the watched folder stays the same, a step that replaces the
\* baseline prev_state has passed every path on which the old and the new
\* baseline differ to record_today_changes.
C24_BaselineRecorded ==
    [][(root_folder' = root_folder /\ ev'.op # "choose_folder")
          => Differing(prev_state, prev_state') \subseteq ev'.diff]_vars

\* ------------------------------------------------------------------ C25
\* C25: after the rollover check of a tick the clock lies within the tracked
\* day, today_zero <= now < today_zero + one day, however many days passed
\* since the previous tick; today_zero is a local midnight in every state and
\* no step (tick, reset, folder choice) decreases it.
C25_TrackedDay ==
    /\ [](today_zero % DayLen = 0)
    /\ [][/\ ev'.op = "tick" => (today_zero' <= now' /\ now' < today_zero' + DayLen)
          /\ today_zero' >= today_zero]_vars

\* A tick after a gap of two days or more moves the tracked day to the
\* current day.
C25_Witness ==
    /\ ev.op = "tick"
    /\ ev.rolled
    /\ today_zero >= ev.tz + 2 * DayLen
    /\ today_zero = StartOfDay(now)

====
